---- MODULE Spec2Model ----
(***************************************************************************)
(* A model of tk-ng's C bindings (ext/tk): the photo-image pixel I/O of    *)
(* tkphoto.c, the list splitting and hit testing of tkutil.c, and the      *)
(* deleted-check guard of tcltkbridge.h.                                    *)
(*                                                                         *)
(* Every binding is one action that models the whole C function: the guard *)
(* get_interp, the argument conversions, the validations in the order the  *)
(* code makes them, the Tcl/Tk calls and the result.  The record `last`    *)
(* holds what the call just made did: its outcome, the Tcl/Tk calls it     *)
(* made before that outcome (in order), the arguments it had read and the  *)
(* value it returned.                                                      *)
(*                                                                         *)
(* The Tk photo image is modelled as Tk keeps it: a width, a height, the   *)
(* size the user configured (0: none) and the pix32 byte array, four bytes *)
(* R,G,B,A per pixel, row after row.  The Tk calls follow the FindPhoto    *)
(* manual page the source cites (tkphoto.c:29).                            *)
(***************************************************************************)
EXTENDS Integers, Sequences, FiniteSets, TLC

VARIABLES
    deleted,   \* tip->deleted (tcltkbridge.h:17)
    hasMain,   \* Tk_MainWindow(tip->interp) is not NULL
    wins,      \* the application's windows on the screen, bottom to top
    photo,     \* the photo image Tk holds under the name PhotoName
    lastPut,   \* the arguments of the last write that succeeded (NoPut: none)
    nwrites,   \* how many writes succeeded
    fontRefs,  \* the font references the bindings hold (Tk_GetFont less Tk_FreeFont)
    prev,      \* the result the host kept of an earlier call (NoCall: none)
    last       \* the call just made

vars == <<deleted, hasMain, wins, photo, lastPut, nwrites, fontRefs, prev, last>>

(***************************** bounds **************************************)
MaxDim == 2
MaxOff == 1
MaxUser == 1
MaxGetOff == 1
MaxReq == 2
MaxFactor == 2
MaxWrites == 1
MaxLen == 5
MaxWin == 2
MaxText == 3
MaxPixels == 4

(*************************** C integers ************************************)
INT_MAX == 2147483647

Max(a, b) == IF a >= b THEN a ELSE b

\* a + b in C int arithmetic, for 0 <= a: whether the sum leaves the int range.
AddOverflows(a, b) == b > INT_MAX - a

(***************************** inputs **************************************)
PhotoName == "img"
Paths == {PhotoName, "nosuch"}

Pattern(n) == [i \in 1..n |-> i]

\* pixel_data: byte strings whose bytes all differ, of every length 4k.
Buffers == {Pattern(4 * k) : k \in 0..(MaxDim * MaxDim)}

Dims == (-1)..MaxDim

NoOpts == [k \in {} |-> 0]

PutOpts ==
    {a @@ b @@ c :
        a \in {NoOpts} \cup {[x |-> v] : v \in 1..MaxOff},
        b \in {NoOpts} \cup {[y |-> v] : v \in 1..MaxOff},
        c \in {NoOpts, [format |-> "argb"]}}

\* zoom and subsample factors given in the hash: non-positive, or above 1
\* (a factor left out is 1).
Factors == {0} \cup (2..MaxFactor)

\* The hash of photo_put_zoomed_block: one that places the block, or one that
\* scales it.
ZoomOpts ==
    PutOpts \cup
    {a @@ b @@ c @@ d @@ e :
        a \in {NoOpts} \cup {[zoom_x |-> v] : v \in Factors},
        b \in {NoOpts} \cup {[zoom_y |-> v] : v \in Factors},
        c \in {NoOpts} \cup {[subsample_x |-> v] : v \in Factors},
        d \in {NoOpts} \cup {[subsample_y |-> v] : v \in Factors},
        e \in {NoOpts, [format |-> "argb"]}}

GetOffs == {-1} \cup (1..MaxGetOff)
ReqDims == (0..MaxReq) \cup {INT_MAX}

GetOpts ==
    {a @@ b @@ c @@ d @@ e :
        a \in {NoOpts} \cup {[x |-> v] : v \in GetOffs},
        b \in {NoOpts} \cup {[y |-> v] : v \in GetOffs},
        c \in {NoOpts} \cup {[width |-> v] : v \in ReqDims},
        d \in {NoOpts} \cup {[height |-> v] : v \in ReqDims},
        e \in {NoOpts, [unpack |-> TRUE]}}

\* An option read that forgets the default.
OptInt_NoDefault(opts, key, default) == IF key \in DOMAIN opts THEN opts[key] ELSE 0

\* rb_hash_aref with a default for a key the hash does not hold.
OptInt(opts, key, default) == IF key \in DOMAIN opts THEN opts[key] ELSE default

(************************ the Tk photo image *******************************)
Zeros(n) == [i \in 1..n |-> 0]

NewPhoto(uw, uh) ==
    [width |-> uw, height |-> uh, userWidth |-> uw, userHeight |-> uh,
     pix |-> Zeros(uw * uh * 4)]

\* An image that holds pixels of earlier writes, no size configured.
PriorPhoto ==
    [width |-> MaxDim, height |-> MaxDim, userWidth |-> 0, userHeight |-> 0,
     pix |-> [i \in 1..(MaxDim * MaxDim * 4) |-> 100 + i]]

\* The images the calls may find: fresh ones, with or without a configured
\* size, and one already written to.
InitPhotos ==
    {NewPhoto(uw, uh) : uw \in 0..MaxUser, uh \in 0..MaxUser} \cup {PriorPhoto}

\* A lookup whose NULL result goes unnoticed.
Tk_FindPhoto_Any(path) == TRUE

\* Tk_FindPhoto: the image handle of a name, or NULL.
Tk_FindPhoto(path) == path = PhotoName

\* Tk_PhotoGetImage: the block describing the image's own pixel array.
Tk_PhotoGetImage(img) ==
    [pixelPtr |-> img.pix, width |-> img.width, height |-> img.height,
     pitch |-> img.width * 4, pixelSize |-> 4, offset |-> <<0, 1, 2, 3>>]

\* Tk's resize of an image: a configured size wins, the old pixels keep their
\* place, new pixels are transparent.
ImgPhotoSetSize(img, w, h) ==
    LET nw == IF img.userWidth > 0 THEN img.userWidth ELSE w
        nh == IF img.userHeight > 0 THEN img.userHeight ELSE h
    IN  [img EXCEPT
            !.width = nw,
            !.height = nh,
            !.pix = [k \in 1..(nw * nh * 4) |->
                LET p == (k - 1) \div 4
                    col == p % nw
                    row == p \div nw
                IN  IF col < img.width /\ row < img.height
                    THEN img.pix[(row * img.width + col) * 4 + ((k - 1) % 4) + 1]
                    ELSE 0]]

\* Whether a write of width x height at (x, y) makes Tk grow the image.
PutGrows(img, x, y, width, height) ==
    LET w1 == IF img.userWidth # 0 /\ x + width > img.userWidth
              THEN img.userWidth - x ELSE width
        h1 == IF img.userHeight # 0 /\ y + height > img.userHeight
              THEN img.userHeight - y ELSE height
    IN  /\ w1 > 0
        /\ h1 > 0
        /\ (x + w1 > img.width \/ y + h1 > img.height)

\* The byte of channel c (0..3: R,G,B,A) of the block's pixel (col, row).
BlockByte(block, col, row, c) ==
    block.pixelPtr[row * block.pitch + col * block.pixelSize + block.offset[c + 1] + 1]

\* The image after Tk stored, with the rule TK_PHOTO_COMPOSITE_SET, the area
\* width x height at (x, y) whose pixel (i, j) is the block's pixel (srcCol[i], srcRow[j]):
\* the area is clipped to a configured size and the image grown to hold it.
PhotoStore(img, block, x, y, width, height, srcCol, srcRow) ==
    LET w1 == IF img.userWidth # 0 /\ x + width > img.userWidth
              THEN img.userWidth - x ELSE width
        h1 == IF img.userHeight # 0 /\ y + height > img.userHeight
              THEN img.userHeight - y ELSE height
    IN  IF w1 <= 0 \/ h1 <= 0 THEN img
        ELSE
            LET g == IF x + w1 > img.width \/ y + h1 > img.height
                     THEN ImgPhotoSetSize(img, Max(x + w1, img.width),
                                          Max(y + h1, img.height))
                     ELSE img
            IN  [g EXCEPT !.pix = [k \in 1..Len(g.pix) |->
                    LET p == (k - 1) \div 4
                        col == p % g.width
                        row == p \div g.width
                    IN  IF /\ col >= x /\ col < x + w1
                           /\ row >= y /\ row < y + h1
                        THEN BlockByte(block, srcCol[col - x], srcRow[row - y],
                                       (k - 1) % 4)
                        ELSE g.pix[k]]]

\* Tk_PhotoPutBlock: the block is tiled over the area.
Tk_PhotoPutBlock(img, block, x, y, width, height) ==
    LET srcCol == [i \in 0..(width - 1) |-> i % block.width]
        srcRow == [j \in 0..(height - 1) |-> j % block.height]
    IN  PhotoStore(img, block, x, y, width, height, srcCol, srcRow)

\* Tk_PhotoPutZoomedBlock: every subsample-th pixel of the block, each one
\* repeated zoom times, in both directions.
Tk_PhotoPutZoomedBlock(img, block, x, y, width, height, zoomX, zoomY, subsampleX, subsampleY) ==
    IF zoomX = 1 /\ zoomY = 1 /\ subsampleX = 1 /\ subsampleY = 1
    THEN Tk_PhotoPutBlock(img, block, x, y, width, height)
    ELSE IF zoomX <= 0 \/ zoomY <= 0 \/ width <= 0 \/ height <= 0 \/ x < 0 \/ y < 0
    THEN img
    ELSE
        LET blockWid == ((block.width + subsampleX - 1) \div subsampleX) * zoomX
            blockHt == ((block.height + subsampleY - 1) \div subsampleY) * zoomY
            srcCol == [i \in 0..(width - 1) |-> ((i % blockWid) \div zoomX) * subsampleX]
            srcRow == [j \in 0..(height - 1) |-> ((j % blockHt) \div zoomY) * subsampleY]
        IN  PhotoStore(img, block, x, y, width, height, srcCol, srcRow)

\* Tk_PhotoGetSize: the image's width and height.
Tk_PhotoGetSize(img) == <<img.width, img.height>>

\* Tk_PhotoBlank: every pixel transparent, the size kept.
Tk_PhotoBlank(img) == [img EXCEPT !.pix = Zeros(Len(img.pix))]

(************************** the call record ********************************)
NoPut == [op |-> "none"]
NoArg == [k \in {} |-> 0]

Call(op, kind, msg, native, arg, ret) ==
    [op |-> op, kind |-> kind, msg |-> msg, native |-> native, arg |-> arg,
     ret |-> ret]

\* A guard that comes after the first Tk call.
RaiseDeleted_AfterCall(op) ==
    Call(op, "Deleted", "interpreter is deleted", <<"Tk_MainWindow">>, NoArg, NoArg)

\* get_interp raises on a deleted interpreter: nothing was read, nothing called.
RaiseDeleted(op) == Call(op, "Deleted", "interpreter is deleted", <<>>, NoArg, NoArg)

NoCall == Call("none", "ok", "", <<>>, NoArg, NoArg)

\* No call is under way: the host has taken the result of the one before.
Idle == last.op = "none"

\* The call ends with record r, the image img, the last write lp.
Finish(r, img, lp, nw) ==
    /\ last' = r
    /\ photo' = img
    /\ lastPut' = lp
    /\ nwrites' = nw
    /\ UNCHANGED <<deleted, hasMain, wins, fontRefs, prev>>

\* An end that clears the image on the way out.
Done_Blanks(r) == Finish(r, Tk_PhotoBlank(photo), lastPut, nwrites)

\* The call ends with record r and changed nothing.
Done(r) == Finish(r, photo, lastPut, nwrites)

(********************** the validations of tkphoto.c ***********************)
\* `if (width <= 0 || height <= 0)`
DimsInvalid(width, height) == width <= 0 \/ height <= 0

\* Numbers too wide for the checker's integers are kept as digits to the base
\* 2^15, lowest first.
Limb == 2 ^ 15

Digits(n) == <<n % Limb, (n \div Limb) % Limb, n \div (Limb * Limb)>>

\* The digits of the number with coefficients c (each below 2^31 with its
\* carry), carries passed upwards.
RECURSIVE Carry(_, _)
Carry(c, carry) ==
    IF c = <<>> THEN <<>>
    ELSE <<(Head(c) + carry) % Limb>> \o Carry(Tail(c), (Head(c) + carry) \div Limb)

\* width * height of two ints, exactly: six digits.
WideProduct(width, height) ==
    LET w == Digits(width)
        h == Digits(height)
    IN  Carry(<<w[1] * h[1],
                w[1] * h[2] + w[2] * h[1],
                w[1] * h[3] + w[2] * h[2] + w[3] * h[1],
                w[2] * h[3] + w[3] * h[2],
                w[3] * h[3],
                0>>, 0)

\* Four times a six-digit number.
TimesFour(d) == Carry([i \in 1..Len(d) |-> d[i] * 4], 0)

\* The value does not fit a signed integer of that many bits.
SignedOverflows(d, bits) ==
    LET q == bits \div 15
        r == bits % 15
    IN  \/ d[q + 1] >= 2 ^ (r - 1)
        \/ \E i \in (q + 2)..Len(d) : d[i] # 0

\* A signed integer of that many bits, wrapped: the digits of its low bits, and
\* whether it is negative.
WrapSigned(d, bits) ==
    LET q == bits \div 15
        r == bits % 15
        top == d[q + 1] % (2 ^ r)
    IN  [digits |-> [i \in 1..Len(d) |->
                        IF i <= q THEN d[i] ELSE IF i = q + 1 THEN top ELSE 0],
         negative |-> top >= 2 ^ (r - 1)]

LONG_BITS == 64

\* An expected size kept in a long of 32 bits.
ExpectedSize_Long32(width, height) ==
    WrapSigned(TimesFour(WideProduct(width, height)), 32)

\* expected_size = (long)width * height * 4, the long wrapping around.
ExpectedSize(width, height) ==
    WrapSigned(TimesFour(WideProduct(width, height)), LONG_BITS)

\* (long)width * height * 4 overflows the long, which is undefined.
ExpectedSizeOverflows(width, height) ==
    SignedOverflows(TimesFour(WideProduct(width, height)), LONG_BITS)

\* RSTRING_LEN(pixel_data) == expected_size, the length given by its digits
LongEquals(len, expected) ==
    /\ ~expected.negative
    /\ expected.digits = len \o <<0, 0, 0>>

\* The size test on a length given by its digits (a string may be longer than
\* the largest int).
SizeMismatchWide(len, width, height) == ~LongEquals(len, ExpectedSize(width, height))

\* A size test that lets a buffer that is too long through.
SizeMismatch_ShortOnly(len, width, height) == len < width * height * 4

\* `if (RSTRING_LEN(pixel_data) != expected_size)`, expected_size being
\* (long)width * height * 4
SizeMismatch(len, width, height) == SizeMismatchWide(Digits(len), width, height)

\* `block.pitch = width * 4` overflows the int, which is undefined.
PitchOverflows(width) == width > INT_MAX \div 4

\* width * 4 in an int that wraps around.
WrappedPitch(width) ==
    LET m == width % (2 ^ 30)
    IN  IF m >= 2 ^ 29 THEN 4 * (m - 2 ^ 30) ELSE 4 * m

\* `(width / subsample_x) * zoom_x` overflows the int, which is undefined.
ScaleOverflows(len, subsample, zoom) == len \div subsample > INT_MAX \div zoom

\* (len / subsample) * zoom in an int that wraps around.
WrappedScale(len, subsample, zoom) ==
    LET d == WideProduct(len \div subsample, zoom)
        top == d[3] % 4
    IN  d[1] + d[2] * Limb + (IF top >= 2 THEN top - 4 ELSE top) * Limb * Limb

\* Dimensions up to the largest int, and buffer lengths, for the size check
\* taken alone.
WideDims ==
    {1, 2, 3, 2 ^ 14, 2 ^ 15, 2 ^ 15 + 1, 46341, 2 ^ 16, 2 ^ 29, 2 ^ 30,
     2 ^ 30 + 2 ^ 29, INT_MAX - 1, INT_MAX}

\* Lengths by their digits: up to the largest int, and 2^31, 2^32, 2^33 - 8.
WideLens ==
    {Digits(n) : n \in {0, 4, 8, 12, 16, 2 ^ 17, 2 ^ 18, 2 ^ 30, INT_MAX - 3,
                        INT_MAX}}
    \cup {<<0, 0, 2>>, <<0, 0, 4>>, <<Limb - 8, Limb - 1, 7>>}

\* Block dimensions and factors up to the largest int, for the destination
\* size taken alone.
ScaleDims == {1, 2, 3, INT_MAX}
WideFactors == {-1, 0, 1, 2, 2 ^ 30, INT_MAX}

\* A zoom test that lets zero through.
ZoomInvalid_NegativeOnly(zoom_x, zoom_y) == zoom_x < 0 \/ zoom_y < 0

\* `if (zoom_x <= 0 || zoom_y <= 0)`
ZoomInvalid(zoom_x, zoom_y) == zoom_x <= 0 \/ zoom_y <= 0

\* `if (subsample_x <= 0 || subsample_y <= 0)`
SubsampleInvalid(subsample_x, subsample_y) == subsample_x <= 0 \/ subsample_y <= 0

\* A validation that comes after the image lookup.
RaiseArgError_AfterLookup(op, msg, arg) ==
    Call(op, "ArgError", msg, <<"Tk_FindPhoto">>, arg, NoArg)

\* rb_raise(rb_eArgError, ...) of the two writes: it comes before Tk_FindPhoto,
\* so no Tcl/Tk call was made.
RaiseArgError(op, msg, arg) == Call(op, "ArgError", msg, <<>>, arg, NoArg)

\* `if (x_off < 0) x_off = 0;`
ClampOffset(v) == IF v < 0 THEN 0 ELSE v

\* An offset test that is off by one.
OffsetOutside_OffByOne(x_off, y_off, img_width, img_height) ==
    x_off > img_width \/ y_off > img_height

\* `if (x_off >= img_width || y_off >= img_height)`
OffsetOutside(x_off, y_off, img_width, img_height) ==
    x_off >= img_width \/ y_off >= img_height

\* `if (actual_width <= 0 || actual_height <= 0)`
RegionInvalid(actual_width, actual_height) ==
    actual_width <= 0 \/ actual_height <= 0

\* The validation of lines 47-60 (and 160-173) and the pitch of line 89 (223)
\* taken alone, for dimensions of any size: the outcome of the two tests on
\* width, height and the length of pixel_data, and the block.pitch of a block
\* that passed them.  Where the product overflows the long, or width * 4 the
\* int, the behaviour is undefined: the build wraps the number or traps.
ValidateBlock ==
    LET op == "validate_block" IN
    /\ Idle
    /\ \E width \in WideDims \cup {0, -1}, height \in WideDims, len \in WideLens :
        LET sized == [width |-> width, height |-> height, len |-> len] IN
        IF DimsInvalid(width, height)
        THEN Done(RaiseArgError(op, "width and height must be positive", sized))
        ELSE \E traps \in IF ExpectedSizeOverflows(width, height)
                           THEN BOOLEAN ELSE {FALSE} :
            IF traps
            THEN Done(Call(op, "UB", "signed overflow trapped", <<>>, sized, NoArg))
            ELSE IF SizeMismatchWide(len, width, height)
            THEN Done(RaiseArgError(op, "pixel_data size mismatch", sized))
            ELSE \E pitch_traps \in IF PitchOverflows(width)
                                     THEN BOOLEAN ELSE {FALSE} :
                IF pitch_traps
                THEN Done(Call(op, "UB", "signed overflow trapped in width * 4",
                               <<>>, sized, NoArg))
                ELSE Done(Call(op, "ok", "", <<>>, sized,
                               [pitch |-> WrappedPitch(width)]))

\* The factor tests of lines 206-211 and the destination size of lines 241-242
\* taken alone, for a block and factors of any size.  Where a product
\* overflows the int the behaviour is undefined: the build wraps it or traps.
\* The image plays no part in it: it is taken before the first write.
ScaleBlock ==
    LET op == "scale_block" IN
    /\ Idle
    /\ nwrites = 0
    /\ \E width \in ScaleDims, height \in ScaleDims,
          zoom_x \in WideFactors, zoom_y \in WideFactors,
          subsample_x \in WideFactors, subsample_y \in WideFactors :
        LET scaled == [width |-> width, height |-> height,
                       zoom_x |-> zoom_x, zoom_y |-> zoom_y,
                       subsample_x |-> subsample_x,
                       subsample_y |-> subsample_y]
        IN
        IF ZoomInvalid(zoom_x, zoom_y)
        THEN Done(RaiseArgError(op, "zoom factors must be positive", scaled))
        ELSE IF SubsampleInvalid(subsample_x, subsample_y)
        THEN Done(RaiseArgError(op, "subsample factors must be positive", scaled))
        ELSE \E traps \in IF \/ ScaleOverflows(width, subsample_x, zoom_x)
                              \/ ScaleOverflows(height, subsample_y, zoom_y)
                           THEN BOOLEAN ELSE {FALSE} :
            IF traps
            THEN Done(Call(op, "UB", "signed overflow trapped in the destination size",
                           <<>>, scaled, NoArg))
            ELSE Done(Call(op, "ok", "", <<>>, scaled,
                           [dest_width |-> WrappedScale(width, subsample_x, zoom_x),
                            dest_height |-> WrappedScale(height, subsample_y,
                                                         zoom_y)]))

(************************ Interp#photo_put_block ***************************)
\* Offsets that ignore the format.
BlockOffsets_NoSwap(is_argb) == <<0, 1, 2, 3>>

\* block.offset: where R, G, B and A sit in a pixel of pixel_data.
BlockOffsets(is_argb) == IF is_argb THEN <<2, 1, 0, 3>> ELSE <<0, 1, 2, 3>>

IsArgb(opts) == "format" \in DOMAIN opts /\ opts["format"] = "argb"

PixelBlock(pixel_data, width, height, is_argb) ==
    [pixelPtr |-> pixel_data, width |-> width, height |-> height,
     pitch |-> WrappedPitch(width), pixelSize |-> 4,
     offset |-> BlockOffsets(is_argb)]

\* What Interp#photo_put_block does on a live handle to the image img with
\* these arguments, Tk able to grow the image or not (tcl_ok): the call's
\* record and the image after it.
PutBlockOutcome(img, width, height, pixel_data, opts, photo_path, tcl_ok) ==
    LET op == "photo_put_block"
        sized == [width |-> width, height |-> height, len |-> Len(pixel_data)]
        x_off == OptInt(opts, "x", 0)
        y_off == OptInt(opts, "y", 0)
        is_argb == IsArgb(opts)
        arg == [op |-> op, photo_path |-> photo_path,
                pixel_data |-> pixel_data,
                width |-> width, height |-> height,
                x_off |-> x_off, y_off |-> y_off,
                is_argb |-> is_argb]
        block == PixelBlock(pixel_data, width, height, is_argb)
        calls == <<"Tk_FindPhoto", "Tk_PhotoPutBlock">>
    IN
    IF DimsInvalid(width, height)
    THEN [rec |-> RaiseArgError(op, "width and height must be positive", sized),
          img |-> img]
    ELSE IF SizeMismatch(Len(pixel_data), width, height)
    THEN [rec |-> RaiseArgError(op, "pixel_data size mismatch", sized),
          img |-> img]
    ELSE IF ~Tk_FindPhoto(photo_path)
    THEN [rec |-> Call(op, "TclError", "photo image not found",
                       <<"Tk_FindPhoto">>, arg, NoArg),
          img |-> img]
    \* Tk_PhotoPutBlock fails only when it cannot grow the image.
    ELSE IF PutGrows(img, x_off, y_off, width, height) /\ ~tcl_ok
    THEN [rec |-> Call(op, "TclError", "Tk_PhotoPutBlock failed", calls, arg,
                       NoArg),
          img |-> img]
    ELSE [rec |-> Call(op, "ok", "", calls, arg, NoArg),
          img |-> Tk_PhotoPutBlock(img, block, x_off, y_off, width, height)]

\* The call ends as the outcome says: an error changes nothing, a write that
\* succeeded leaves its image and is the last write.
EndWrite(out) ==
    IF out.rec.kind = "ok"
    THEN Finish(out.rec, out.img, out.rec.arg, nwrites + 1)
    ELSE Done(out.rec)

interp_photo_put_block ==
    /\ Idle
    /\ nwrites < MaxWrites
    /\ IF deleted THEN Done(RaiseDeleted("photo_put_block"))
       ELSE \E width \in Dims, height \in Dims, pixel_data \in Buffers,
               opts \in PutOpts, photo_path \in Paths, tcl_ok \in BOOLEAN :
            EndWrite(PutBlockOutcome(photo, width, height, pixel_data, opts,
                                     photo_path, tcl_ok))

(********************* Interp#photo_put_zoomed_block ***********************)
\* What Interp#photo_put_zoomed_block does on a live handle to the image img
\* with these arguments, Tk able to grow the image or not (tcl_ok): the call's
\* record and the image after it.
PutZoomedBlockOutcome(img, width, height, pixel_data, opts, photo_path, tcl_ok) ==
    LET op == "photo_put_zoomed_block"
        sized == [width |-> width, height |-> height, len |-> Len(pixel_data)]
        x_off == OptInt(opts, "x", 0)
        y_off == OptInt(opts, "y", 0)
        zoom_x == OptInt(opts, "zoom_x", 1)
        zoom_y == OptInt(opts, "zoom_y", 1)
        subsample_x == OptInt(opts, "subsample_x", 1)
        subsample_y == OptInt(opts, "subsample_y", 1)
        is_argb == IsArgb(opts)
        scaled == sized @@
                  [zoom_x |-> zoom_x, zoom_y |-> zoom_y,
                   subsample_x |-> subsample_x, subsample_y |-> subsample_y]
        dest_width == WrappedScale(width, subsample_x, zoom_x)
        dest_height == WrappedScale(height, subsample_y, zoom_y)
        arg == [op |-> op, photo_path |-> photo_path,
                pixel_data |-> pixel_data,
                width |-> width, height |-> height,
                x_off |-> x_off, y_off |-> y_off,
                is_argb |-> is_argb,
                zoom_x |-> zoom_x, zoom_y |-> zoom_y,
                subsample_x |-> subsample_x, subsample_y |-> subsample_y,
                dest_width |-> dest_width, dest_height |-> dest_height]
        block == PixelBlock(pixel_data, width, height, is_argb)
        calls == <<"Tk_FindPhoto", "Tk_PhotoPutZoomedBlock">>
    IN
    IF DimsInvalid(width, height)
    THEN [rec |-> RaiseArgError(op, "width and height must be positive", sized),
          img |-> img]
    ELSE IF SizeMismatch(Len(pixel_data), width, height)
    THEN [rec |-> RaiseArgError(op, "pixel_data size mismatch", sized),
          img |-> img]
    ELSE IF ZoomInvalid(zoom_x, zoom_y)
    THEN [rec |-> RaiseArgError(op, "zoom factors must be positive", scaled),
          img |-> img]
    ELSE IF SubsampleInvalid(subsample_x, subsample_y)
    THEN [rec |-> RaiseArgError(op, "subsample factors must be positive", scaled),
          img |-> img]
    ELSE IF ~Tk_FindPhoto(photo_path)
    THEN [rec |-> Call(op, "TclError", "photo image not found",
                       <<"Tk_FindPhoto">>, arg, NoArg),
          img |-> img]
    ELSE IF PutGrows(img, x_off, y_off, dest_width, dest_height) /\ ~tcl_ok
    THEN [rec |-> Call(op, "TclError", "Tk_PhotoPutZoomedBlock failed", calls,
                       arg, NoArg),
          img |-> img]
    ELSE [rec |-> Call(op, "ok", "", calls, arg, NoArg),
          img |-> Tk_PhotoPutZoomedBlock(img, block, x_off, y_off,
                                         dest_width, dest_height, zoom_x, zoom_y,
                                         subsample_x, subsample_y)]

interp_photo_put_zoomed_block ==
    /\ Idle
    /\ nwrites < MaxWrites
    /\ IF deleted THEN Done(RaiseDeleted("photo_put_zoomed_block"))
       ELSE \E width \in Dims, height \in Dims, pixel_data \in Buffers,
               opts \in ZoomOpts, photo_path \in Paths, tcl_ok \in BOOLEAN :
            EndWrite(PutZoomedBlockOutcome(photo, width, height, pixel_data,
                                           opts, photo_path, tcl_ok))

(************************ Interp#photo_get_image ***************************)
\* actual_width after `if (x_off + actual_width > img_width) ...`: the int sum
\* overflows for a huge request, which is undefined; a build either wraps it
\* to a negative number (wraps: the test is false, nothing is clamped) or
\* compares the exact sum.
ClampExtent(off, req, img, wraps) ==
    IF AddOverflows(off, req)
    THEN IF wraps THEN req ELSE img - off
    ELSE IF off + req > img THEN img - off ELSE req

\* A copy that takes the region's width for the image's pitch.
CopyRegion_RegionPitch(block, x_off, y_off, actual_width, actual_height) ==
    [k \in 1..(actual_width * actual_height * 4) |->
        LET p == (k - 1) \div 4
            c == (k - 1) % 4
            x == p % actual_width
            y == p \div actual_width
            src == (y_off + y) * actual_width * 4 + (x_off + x) * block.pixelSize
        IN  block.pixelPtr[src + block.offset[c + 1] + 1]]

\* The binary string the loop of lines 381-390 fills: r, g, b, a of every
\* pixel of the region, row after row.
CopyRegion(block, x_off, y_off, actual_width, actual_height) ==
    [k \in 1..(actual_width * actual_height * 4) |->
        LET p == (k - 1) \div 4
            c == (k - 1) % 4
            x == p % actual_width
            y == p \div actual_width
            src == (y_off + y) * block.pitch + (x_off + x) * block.pixelSize
        IN  IF c < 3 \/ block.pixelSize >= 4
            THEN block.pixelPtr[src + block.offset[c + 1] + 1]
            ELSE 255]

\* The inner loop of lines 366-372: the pixels of one row pushed on the array,
\* src moving on by pixelSize after each.
RECURSIVE UnpackRow(_, _, _)
UnpackRow(block, src, x_left) ==
    IF x_left <= 0 THEN <<>>
    ELSE <<block.pixelPtr[src + block.offset[1] + 1],
           block.pixelPtr[src + block.offset[2] + 1],
           block.pixelPtr[src + block.offset[3] + 1],
           IF block.pixelSize >= 4 THEN block.pixelPtr[src + block.offset[4] + 1]
           ELSE 255>>
         \o UnpackRow(block, src + block.pixelSize, x_left - 1)

\* The outer loop of lines 364-373, from row y on.
RECURSIVE UnpackRows(_, _, _, _, _, _)
UnpackRows(block, x_off, y_off, actual_width, actual_height, y) ==
    IF y >= actual_height THEN <<>>
    ELSE UnpackRow(block, (y_off + y) * block.pitch + x_off * block.pixelSize,
                   actual_width)
         \o UnpackRows(block, x_off, y_off, actual_width, actual_height, y + 1)

\* The array of integers of lines 361-375.
UnpackRegion(block, x_off, y_off, actual_width, actual_height) ==
    UnpackRows(block, x_off, y_off, actual_width, actual_height, 0)

interp_photo_get_image ==
    LET op == "photo_get_image" IN
    /\ Idle
    /\ IF deleted THEN Done(RaiseDeleted(op))
       ELSE \E photo_path \in Paths :
        IF ~Tk_FindPhoto(photo_path)
        THEN Done(Call(op, "TclError", "photo image not found",
                       <<"Tk_FindPhoto">>, [photo_path |-> photo_path], NoArg))
        ELSE \E opts \in GetOpts :
            LET block == Tk_PhotoGetImage(photo)
                calls == <<"Tk_FindPhoto", "Tk_PhotoGetImage">>
                img_width == block.width
                img_height == block.height
                arg == [photo_path |-> photo_path, opts |-> opts,
                        img_width |-> img_width, img_height |-> img_height]
                x_arg == OptInt(opts, "x", 0)
                y_arg == OptInt(opts, "y", 0)
                req_width == OptInt(opts, "width", img_width)
                req_height == OptInt(opts, "height", img_height)
                do_unpack == "unpack" \in DOMAIN opts /\ opts["unpack"]
                x_off == ClampOffset(x_arg)
                y_off == ClampOffset(y_arg)
            IN
            IF OffsetOutside(x_off, y_off, img_width, img_height)
            THEN Done(Call(op, "ArgError", "offset outside image bounds",
                           calls, arg, NoArg))
            ELSE
                \E wrapsX \in IF AddOverflows(x_off, req_width)
                              THEN BOOLEAN ELSE {FALSE},
                   wrapsY \in IF AddOverflows(y_off, req_height)
                              THEN BOOLEAN ELSE {FALSE} :
                LET actual_width == ClampExtent(x_off, req_width, img_width, wrapsX)
                    actual_height == ClampExtent(y_off, req_height, img_height, wrapsY)
                    size == [width |-> actual_width, height |-> actual_height]
                IN
                IF RegionInvalid(actual_width, actual_height)
                THEN Done(Call(op, "ArgError", "invalid region size",
                               calls, arg, NoArg))
                ELSE IF \/ actual_width > img_width - x_off
                        \/ actual_height > img_height - y_off
                \* the copy loops read past the image's pixel array
                THEN Done(Call(op, "UB", "read outside the pixel array",
                               calls, arg, size))
                ELSE
                    Done(Call(op, "ok", "", calls, arg,
                              IF do_unpack
                              THEN size @@ [pixels |->
                                      UnpackRegion(block, x_off, y_off,
                                                   actual_width, actual_height)]
                              ELSE size @@ [data |->
                                      CopyRegion(block, x_off, y_off,
                                                 actual_width, actual_height)]))

(************************* Interp#photo_get_size ***************************)
interp_photo_get_size ==
    LET op == "photo_get_size" IN
    /\ Idle
    /\ IF deleted THEN Done(RaiseDeleted(op))
       ELSE \E photo_path \in Paths :
            LET arg == [photo_path |-> photo_path] IN
            IF ~Tk_FindPhoto(photo_path)
            THEN Done(Call(op, "TclError", "photo image not found",
                           <<"Tk_FindPhoto">>, arg, NoArg))
            ELSE Done(Call(op, "ok", "", <<"Tk_FindPhoto", "Tk_PhotoGetSize">>,
                           arg, [size |-> Tk_PhotoGetSize(photo)]))

(*************************** Interp#photo_blank ****************************)
interp_photo_blank ==
    LET op == "photo_blank" IN
    /\ Idle
    /\ IF deleted THEN Done(RaiseDeleted(op))
       ELSE \E photo_path \in Paths :
            LET arg == [photo_path |-> photo_path] IN
            IF ~Tk_FindPhoto(photo_path)
            THEN Done(Call(op, "TclError", "photo image not found",
                           <<"Tk_FindPhoto">>, arg, NoArg))
            ELSE Finish(Call(op, "ok", "", <<"Tk_FindPhoto", "Tk_PhotoBlank">>,
                             arg, NoArg),
                        Tk_PhotoBlank(photo), NoPut, nwrites)

(************************* Interp#tcl_split_list ***************************)
\* A string is the sequence of its characters; a Ruby value given as list_str
\* is nil, a String or (for StringValue's TypeError) an Integer.
Chars == {"a", "b", " ", "{", "}", "\""}
RubyNil == [type |-> "nil", str |-> <<>>]
RubyInteger == [type |-> "Integer", str |-> <<>>]
RubyString(s) == [type |-> "String", str |-> s]
\* A nil test that never fires.
NIL_P_Never(v) == FALSE
NIL_P(v) == v.type = "nil"
RSTRING_LEN(v) == Len(v.str)

\* StringValue(v) returns for a String and raises TypeError for a value with no
\* to_str.
IsString(v) == v.type = "String"

ListInputs ==
    {RubyNil, RubyInteger} \cup
    {RubyString(s) : s \in UNION {[1..n -> Chars] : n \in 0..MaxLen}}

\* Tcl's list grammar (Tcl_ListObjGetElements): elements are separated by white
\* space; one that starts with an open brace runs to the matching close brace,
\* one that starts with a quote to the next quote, and either must be followed
\* by white space or the end; any other runs to the next white space.
IsSpace(ch) == ch = " "

RECURSIVE SkipSpace(_, _)
SkipSpace(s, i) ==
    IF i <= Len(s) /\ IsSpace(s[i]) THEN SkipSpace(s, i + 1) ELSE i

\* Where the brace opened before i (depth braces are open) closes; 0: nowhere.
RECURSIVE CloseBrace(_, _, _)
CloseBrace(s, i, depth) ==
    IF i > Len(s) THEN 0
    ELSE IF s[i] = "{" THEN CloseBrace(s, i + 1, depth + 1)
    ELSE IF s[i] = "}"
         THEN IF depth = 1 THEN i ELSE CloseBrace(s, i + 1, depth - 1)
    ELSE CloseBrace(s, i + 1, depth)

RECURSIVE CloseQuote(_, _)
CloseQuote(s, i) ==
    IF i > Len(s) THEN 0
    ELSE IF s[i] = "\"" THEN i
    ELSE CloseQuote(s, i + 1)

RECURSIVE WordEnd(_, _)
WordEnd(s, i) ==
    IF i > Len(s) \/ IsSpace(s[i]) THEN i ELSE WordEnd(s, i + 1)

\* The element that starts at s[i], and where the scan goes on.
TclFindElement(s, i) ==
    IF s[i] = "{" \/ s[i] = "\""
    THEN LET c == IF s[i] = "{" THEN CloseBrace(s, i + 1, 1)
                  ELSE CloseQuote(s, i + 1)
         IN  IF c = 0 THEN [ok |-> FALSE]
             ELSE IF c < Len(s) /\ ~IsSpace(s[c + 1]) THEN [ok |-> FALSE]
             ELSE [ok |-> TRUE, elem |-> SubSeq(s, i + 1, c - 1), next |-> c + 1]
    ELSE LET e == WordEnd(s, i)
         IN  [ok |-> TRUE, elem |-> SubSeq(s, i, e - 1), next |-> e]

RECURSIVE TclSplitFrom(_, _)
TclSplitFrom(s, i) ==
    LET j == SkipSpace(s, i) IN
    IF j > Len(s) THEN [code |-> "TCL_OK", objv |-> <<>>]
    ELSE LET e == TclFindElement(s, j) IN
         IF ~e.ok THEN [code |-> "TCL_ERROR", objv |-> <<>>]
         ELSE LET rest == TclSplitFrom(s, e.next) IN
              IF rest.code # "TCL_OK" THEN rest
              ELSE [code |-> "TCL_OK", objv |-> <<e.elem>> \o rest.objv]

Tcl_ListObjGetElements(s) == TclSplitFrom(s, 1)

\* A conversion that loses the last element.
ElementsToAry_DropsLast(objv) == [i \in 1..(Len(objv) - 1) |-> objv[i]]

\* The loop of lines 47-52: a Ruby string of every objv[i], in order.
ElementsToAry(objv) == [i \in 1..Len(objv) |-> objv[i]]

interp_tcl_split_list ==
    LET op == "tcl_split_list" IN
    /\ Idle
    /\ \E list_str \in ListInputs :
        LET arg == [list_str |-> list_str] IN
        IF deleted
        THEN Done(Call(op, "Deleted", "interpreter is deleted", <<>>, arg, NoArg))
        ELSE IF NIL_P(list_str)
        THEN Done(Call(op, "ok", "", <<>>, arg, [ary |-> <<>>]))
        ELSE IF ~IsString(list_str)
        THEN Done(Call(op, "TypeError", "no implicit conversion into String",
                       <<>>, arg, NoArg))
        ELSE IF RSTRING_LEN(list_str) = 0
        THEN Done(Call(op, "ok", "", <<>>, arg, [ary |-> <<>>]))
        ELSE
            LET got == Tcl_ListObjGetElements(list_str.str)
                calls == <<"Tcl_NewStringObj", "Tcl_ListObjGetElements">>
            IN  IF got.code # "TCL_OK"
                THEN Done(Call(op, "TclError", "invalid Tcl list", calls, arg, NoArg))
                ELSE Done(Call(op, "ok", "", calls, arg,
                               [ary |-> ElementsToAry(got.objv)]))

(************************ Interp#coords_to_window **************************)
\* A window on the screen: its path name (pathName is NULL once the window is
\* being destroyed) and the pixels it covers.
Window(path, alive, left, top, right, bottom) ==
    [pathName |-> path, alive |-> alive,
     left |-> left, top |-> top, right |-> right, bottom |-> bottom]

Contains(w, x, y) ==
    x >= w.left /\ x <= w.right /\ y >= w.top /\ y <= w.bottom

\* The window layouts of an application whose main window exists: the main
\* window with its corner at (0, 0), alone or under a child covering (1, 1).
Layouts ==
    {<<Window(".", TRUE, 0, 0, r, b)>> \o child :
        r \in 0..MaxWin, b \in 0..MaxWin,
        child \in {<<>>, <<Window(".b", TRUE, 1, 1, 1, 1)>>,
                   <<Window(".b", FALSE, 1, 1, 1, 1)>>}}

Coords == (-1)..(MaxWin + 1)

\* Tk_CoordsToWindow: the index in wins of the topmost window of the
\* application that holds the point; 0 (NULL) when none does.
Tk_CoordsToWindow(x, y) ==
    LET hit == {n \in 1..Len(wins) : Contains(wins[n], x, y)}
    IN  IF hit = {} THEN 0 ELSE CHOOSE n \in hit : \A m \in hit : m <= n

\* Tk_MainWindow: the application's main window, or NULL.
Tk_MainWindow == hasMain

\* A main-window test that never fires.
NoMainWindow_Never(mainWin) == FALSE

\* `if (!mainWin)`
NoMainWindow(mainWin) == ~mainWin

interp_coords_to_window ==
    LET op == "coords_to_window" IN
    /\ Idle
    /\ \E root_x \in Coords, root_y \in Coords :
        LET arg == [root_x |-> root_x, root_y |-> root_y] IN
        IF deleted
        THEN Done(Call(op, "Deleted", "interpreter is deleted", <<>>, arg, NoArg))
        ELSE IF NoMainWindow(Tk_MainWindow)
        THEN Done(Call(op, "TclError", "Tk not initialized (no main window)",
                       <<"Tk_MainWindow">>, arg, NoArg))
        ELSE
            LET foundWin == Tk_CoordsToWindow(root_x, root_y)
                calls == <<"Tk_MainWindow", "Tk_CoordsToWindow">>
            IN  IF foundWin = 0
                THEN Done(Call(op, "ok", "", calls, arg, [nil |-> TRUE]))
                ELSE IF ~wins[foundWin].alive
                THEN Done(Call(op, "ok", "", calls \o <<"Tk_PathName">>, arg,
                               [nil |-> TRUE]))
                ELSE Done(Call(op, "ok", "", calls \o <<"Tk_PathName">>, arg,
                               [nil |-> FALSE, path |-> wins[foundWin].pathName]))

(********************* Interp#user_inactive_time ***************************)
\* Tk_GetUserInactiveTime: milliseconds, or -1 where the display cannot tell.
InactiveTimes == {-1, 0, MaxPixels}

interp_user_inactive_time ==
    LET op == "user_inactive_time" IN
    /\ Idle
    /\ IF deleted THEN Done(RaiseDeleted(op))
       ELSE IF NoMainWindow(Tk_MainWindow)
       THEN Done(Call(op, "TclError", "Tk not initialized (no main window)",
                      <<"Tk_MainWindow">>, NoArg, NoArg))
       ELSE \E display \in BOOLEAN :
            IF ~display
            THEN Done(Call(op, "TclError", "Could not get display",
                           <<"Tk_MainWindow", "Tk_Display">>, NoArg, NoArg))
            ELSE \E inactive_ms \in InactiveTimes :
                Done(Call(op, "ok", "",
                          <<"Tk_MainWindow", "Tk_Display", "Tk_GetUserInactiveTime">>,
                          NoArg, [ms |-> inactive_ms]))

(*********************** Interp#get_root_coords ****************************)
WindowPaths == {".", ".b", ".nosuch"}

\* Tk_NameToWindow: the index in wins of the window of that path name; 0
\* (NULL) when there is none.
Tk_NameToWindow(path) ==
    LET named == {n \in 1..Len(wins) : wins[n].alive /\ wins[n].pathName = path}
    IN  IF named = {} THEN 0 ELSE CHOOSE n \in named : TRUE

interp_get_root_coords ==
    LET op == "get_root_coords" IN
    /\ Idle
    /\ IF deleted THEN Done(RaiseDeleted(op))
       ELSE \E window_path \in WindowPaths :
            LET arg == [window_path |-> window_path] IN
            IF NoMainWindow(Tk_MainWindow)
            THEN Done(Call(op, "TclError", "Tk not initialized (no main window)",
                           <<"Tk_MainWindow">>, arg, NoArg))
            ELSE
                LET tkwin == Tk_NameToWindow(window_path)
                    calls == <<"Tk_MainWindow", "Tk_NameToWindow">>
                IN  IF tkwin = 0
                    THEN Done(Call(op, "TclError", "window not found", calls, arg,
                                   NoArg))
                    ELSE Done(Call(op, "ok", "", calls \o <<"Tk_GetRootCoords">>,
                                   arg, [x |-> wins[tkwin].left,
                                         y |-> wins[tkwin].top]))

(****************************** tkfont.c ***********************************)
\* The fonts Tk can resolve, each of one character width (in pixels), with its
\* metrics; any other description makes Tk_GetFont return NULL.
FontTable ==
    [TkDefaultFont |-> [charWidth |-> 1, ascent |-> 3, descent |-> 1],
     Courier |-> [charWidth |-> 2, ascent |-> 4, descent |-> 2]]

FontNames == DOMAIN FontTable

\* The font_name arguments: descriptions Tk resolves, one it does not, and a
\* value that is no String.
FontInputs == {RubyString(f) : f \in FontNames \cup {"-bogus"}} \cup {RubyInteger}

TextChars == {"a", " "}
Texts == UNION {[1..n -> TextChars] : n \in 0..MaxText}
PixelLimits == (-1)..MaxPixels

TK_PARTIAL_OK == "partial_ok"
TK_WHOLE_WORDS == "whole_words"
TK_AT_LEAST_ONE == "at_least_one"

\* The options hashes of measure_chars: the keys set to true.
MeasureOpts == SUBSET {TK_PARTIAL_OK, TK_WHOLE_WORDS, TK_AT_LEAST_ONE}

NoFonts == [f \in FontNames |-> 0]

\* Tk_GetFont: a reference to the font is taken; NULL for a description Tk
\* cannot resolve (no reference then).
FontResolves(font_str) == font_str \in FontNames
Tk_GetFont(refs, font_str) == [refs EXCEPT ![font_str] = @ + 1]

\* A release that does nothing.
Tk_FreeFont_Keeps(refs, tkfont) == refs

\* Tk_FreeFont: the reference is given back.
Tk_FreeFont(refs, tkfont) == [refs EXCEPT ![tkfont] = @ - 1]

\* Tk_TextWidth: the pixels the text takes in the font.
Tk_TextWidth(tkfont, text_str) == Len(text_str) * FontTable[tkfont].charWidth

\* Tk_GetFontMetrics
Tk_GetFontMetrics(tkfont) ==
    [ascent |-> FontTable[tkfont].ascent,
     descent |-> FontTable[tkfont].descent,
     linespace |-> FontTable[tkfont].ascent + FontTable[tkfont].descent]

\* Tk_MeasureChars: how many bytes of the text fit in max_pixels (all of them
\* when max_pixels < 0), and the pixels they take.
Tk_MeasureChars(tkfont, text_str, max_pixels, flags) ==
    LET cw == FontTable[tkfont].charWidth
        n == Len(text_str)
        whole == IF max_pixels < 0 \/ n * cw <= max_pixels
                 THEN n ELSE max_pixels \div cw
        fit == IF /\ TK_PARTIAL_OK \in flags
                  /\ whole < n
                  /\ whole * cw < max_pixels
               THEN whole + 1 ELSE whole
        ends == {k \in 1..fit : k = n \/ text_str[k + 1] = " "}
        word == IF fit = n THEN n
                ELSE IF ends = {} THEN 0
                ELSE CHOOSE k \in ends : \A m \in ends : m <= k
        cut == IF TK_WHOLE_WORDS \in flags /\ ~(word = 0 /\ TK_AT_LEAST_ONE \in flags)
               THEN word ELSE fit
        bytes == IF cut = 0 /\ n > 0 /\ TK_AT_LEAST_ONE \in flags THEN 1 ELSE cut
    IN  [num_bytes |-> bytes, length |-> bytes * cw]

\* The call ends with record r and the font references refs.
FinishFont(r, refs) ==
    /\ last' = r
    /\ fontRefs' = refs
    /\ UNCHANGED <<deleted, hasMain, wins, photo, lastPut, nwrites, prev>>

\* `if (!tkfont)`
FontNotFound(font_str) == ~FontResolves(font_str)

interp_text_width ==
    LET op == "text_width" IN
    /\ Idle
    /\ IF deleted THEN Done(RaiseDeleted(op))
       ELSE \E font_name \in FontInputs, text \in Texts :
            LET arg == [font_name |-> font_name, text |-> text] IN
            IF ~IsString(font_name)
            THEN Done(Call(op, "TypeError", "no implicit conversion into String",
                           <<>>, arg, NoArg))
            ELSE IF NoMainWindow(Tk_MainWindow)
            THEN Done(Call(op, "TclError", "Tk not initialized (no main window)",
                           <<"Tk_MainWindow">>, arg, NoArg))
            ELSE IF FontNotFound(font_name.str)
            THEN Done(Call(op, "TclError", "font not found",
                           <<"Tk_MainWindow", "Tk_GetFont">>, arg, NoArg))
            ELSE
                LET tkfont == font_name.str
                    held == Tk_GetFont(fontRefs, tkfont)
                    width == Tk_TextWidth(tkfont, text)
                IN  FinishFont(Call(op, "ok", "",
                                    <<"Tk_MainWindow", "Tk_GetFont", "Tk_TextWidth",
                                      "Tk_FreeFont">>,
                                    arg, [width |-> width]),
                               Tk_FreeFont(held, tkfont))

interp_font_metrics ==
    LET op == "font_metrics" IN
    /\ Idle
    /\ IF deleted THEN Done(RaiseDeleted(op))
       ELSE \E font_name \in FontInputs :
            LET arg == [font_name |-> font_name] IN
            IF ~IsString(font_name)
            THEN Done(Call(op, "TypeError", "no implicit conversion into String",
                           <<>>, arg, NoArg))
            ELSE IF NoMainWindow(Tk_MainWindow)
            THEN Done(Call(op, "TclError", "Tk not initialized (no main window)",
                           <<"Tk_MainWindow">>, arg, NoArg))
            ELSE IF FontNotFound(font_name.str)
            THEN Done(Call(op, "TclError", "font not found",
                           <<"Tk_MainWindow", "Tk_GetFont">>, arg, NoArg))
            ELSE
                LET tkfont == font_name.str
                    held == Tk_GetFont(fontRefs, tkfont)
                    fm == Tk_GetFontMetrics(tkfont)
                IN  FinishFont(Call(op, "ok", "",
                                    <<"Tk_MainWindow", "Tk_GetFont",
                                      "Tk_GetFontMetrics", "Tk_FreeFont">>,
                                    arg, fm),
                               Tk_FreeFont(held, tkfont))

interp_measure_chars ==
    LET op == "measure_chars" IN
    /\ Idle
    /\ IF deleted THEN Done(RaiseDeleted(op))
       ELSE \E font_name \in FontInputs :
            IF ~IsString(font_name)
            THEN Done(Call(op, "TypeError", "no implicit conversion into String",
                           <<>>, [font_name |-> font_name], NoArg))
            ELSE \E text \in Texts, max_pixels \in PixelLimits, flags \in MeasureOpts :
                LET arg == [font_name |-> font_name, text |-> text,
                            max_pixels |-> max_pixels, flags |-> flags]
                IN
                IF NoMainWindow(Tk_MainWindow)
                THEN Done(Call(op, "TclError", "Tk not initialized (no main window)",
                               <<"Tk_MainWindow">>, arg, NoArg))
                ELSE IF FontNotFound(font_name.str)
                THEN Done(Call(op, "TclError", "font not found",
                               <<"Tk_MainWindow", "Tk_GetFont">>, arg, NoArg))
                ELSE
                    LET tkfont == font_name.str
                        held == Tk_GetFont(fontRefs, tkfont)
                        m == Tk_MeasureChars(tkfont, text, max_pixels, flags)
                    IN  FinishFont(Call(op, "ok", "",
                                        <<"Tk_MainWindow", "Tk_GetFont",
                                          "Tk_MeasureChars", "Tk_FreeFont">>,
                                        arg, [bytes |-> m.num_bytes,
                                              width |-> m.length]),
                                   Tk_FreeFont(held, tkfont))

(********************** the interpreter's deletion *************************)
\* The interpreter is deleted (tcltkbridge.c); the flag of tcltkbridge.h:17.
InterpDelete ==
    /\ Idle
    /\ ~deleted
    /\ deleted' = TRUE
    /\ UNCHANGED <<hasMain, wins, photo, lastPut, nwrites, fontRefs, prev, last>>

(*************************** specification *********************************)
\* The host takes the result (or rescues the exception) of the call just made.
HostTakesResult ==
    /\ ~Idle
    /\ last' = NoCall
    /\ UNCHANGED <<deleted, hasMain, wins, photo, lastPut, nwrites, fontRefs, prev>>

\* The host takes the result of the call just made and keeps it.
HostKeepsResult ==
    /\ ~Idle
    /\ prev' = last
    /\ last' = NoCall
    /\ UNCHANGED <<deleted, hasMain, wins, photo, lastPut, nwrites, fontRefs>>

Init ==
    /\ deleted = FALSE
    /\ hasMain = TRUE
    /\ wins = <<>>
    /\ photo \in InitPhotos
    /\ lastPut = NoPut
    /\ nwrites = 0
    /\ fontRefs = NoFonts
    /\ prev = NoCall
    /\ last = NoCall

Next ==
    \/ interp_photo_put_block
    \/ interp_photo_put_zoomed_block
    \/ interp_photo_get_image
    \/ interp_photo_get_size
    \/ interp_photo_blank
    \/ InterpDelete
    \/ HostTakesResult

Spec == Init /\ [][Next]_vars

\* tcl_split_list alone, on an interpreter that may get deleted.
InitList ==
    /\ deleted = FALSE
    /\ hasMain = TRUE
    /\ wins = <<>>
    /\ photo = NewPhoto(0, 0)
    /\ lastPut = NoPut
    /\ nwrites = 0
    /\ fontRefs = NoFonts
    /\ prev = NoCall
    /\ last = NoCall

NextList ==
    \/ interp_tcl_split_list
    \/ InterpDelete
    \/ HostTakesResult

SpecList == InitList /\ [][NextList]_vars

\* coords_to_window alone: Tk initialized or not, over every window layout.
InitWin ==
    /\ deleted = FALSE
    /\ hasMain \in BOOLEAN
    /\ wins \in IF hasMain THEN Layouts ELSE {<<>>}
    /\ photo = NewPhoto(0, 0)
    /\ lastPut = NoPut
    /\ nwrites = 0
    /\ fontRefs = NoFonts
    /\ prev = NoCall
    /\ last = NoCall

NextWin ==
    \/ interp_coords_to_window
    \/ InterpDelete
    \/ HostTakesResult

SpecWin == InitWin /\ [][NextWin]_vars

\* The font measurements alone: Tk initialized or not.
InitFont ==
    /\ deleted = FALSE
    /\ hasMain \in BOOLEAN
    /\ wins = <<>>
    /\ photo = NewPhoto(0, 0)
    /\ lastPut = NoPut
    /\ nwrites = 0
    /\ fontRefs = NoFonts
    /\ prev = NoCall
    /\ last = NoCall

NextFont ==
    \/ interp_text_width
    \/ interp_font_metrics
    \/ interp_measure_chars
    \/ InterpDelete
    \/ HostTakesResult

SpecFont == InitFont /\ [][NextFont]_vars

\* A handle from its deletion on: every binding called on the deleted handle
\* (the calls on a live one are those of the specifications above).
InitGuard ==
    /\ deleted = FALSE
    /\ hasMain \in BOOLEAN
    /\ wins \in IF hasMain THEN {<<Window(".", TRUE, 0, 0, MaxWin, MaxWin)>>}
                ELSE {<<>>}
    /\ photo \in InitPhotos
    /\ lastPut = NoPut
    /\ nwrites = 0
    /\ fontRefs = NoFonts
    /\ prev = NoCall
    /\ last = NoCall

NextGuard ==
    \/ deleted /\ interp_photo_put_block
    \/ deleted /\ interp_photo_put_zoomed_block
    \/ deleted /\ interp_photo_get_image
    \/ deleted /\ interp_photo_get_size
    \/ deleted /\ interp_photo_blank
    \/ deleted /\ interp_tcl_split_list
    \/ deleted /\ interp_user_inactive_time
    \/ deleted /\ interp_get_root_coords
    \/ deleted /\ interp_coords_to_window
    \/ deleted /\ interp_text_width
    \/ deleted /\ interp_font_metrics
    \/ deleted /\ interp_measure_chars
    \/ InterpDelete
    \/ HostTakesResult

SpecGuard == InitGuard /\ [][NextGuard]_vars

\* photo_get_image called again and again on one image, the host keeping the
\* result of a call to hold it against the next one.
InitModes ==
    /\ deleted = FALSE
    /\ hasMain = TRUE
    /\ wins = <<>>
    /\ photo \in InitPhotos
    /\ lastPut = NoPut
    /\ nwrites = 0
    /\ fontRefs = NoFonts
    /\ prev = NoCall
    /\ last = NoCall

NextModes ==
    \/ interp_photo_get_image
    \/ HostKeepsResult

SpecModes == InitModes /\ [][NextModes]_vars

\* The two writes on one image, and the destination size of the zoomed write
\* over factors of any size.
NextZoom ==
    \/ interp_photo_put_block
    \/ interp_photo_put_zoomed_block
    \/ ScaleBlock
    \/ HostTakesResult

SpecZoom == InitModes /\ [][NextZoom]_vars

\* The size validation of the two writes, over dimensions of any size.
NextSize ==
    \/ ValidateBlock
    \/ HostTakesResult

SpecSize == InitList /\ [][NextSize]_vars

(***************************************************************************)
(* The claims.  Each is about calls made on a live interpreter (a call on  *)
(* a deleted one ends in get_interp, before it reads an argument), unless  *)
(* it speaks of the handle's state itself.                                 *)
(***************************************************************************)
Min(a, b) == IF a <= b THEN a ELSE b

WriteOps == {"photo_put_block", "photo_put_zoomed_block"}

\* The call just made is a photo_get_image that found the image.
GetReached ==
    /\ last.op = "photo_get_image"
    /\ last.kind # "Deleted"
    /\ last.arg.photo_path = PhotoName

ReqX == OptInt(last.arg.opts, "x", 0)
ReqY == OptInt(last.arg.opts, "y", 0)
ReqW == OptInt(last.arg.opts, "width", last.arg.img_width)
ReqH == OptInt(last.arg.opts, "height", last.arg.img_height)
RawMode == "unpack" \notin DOMAIN last.arg.opts

\* The bytes a successful photo_get_image returned, in either mode.
GotBytes == IF RawMode THEN last.ret.data ELSE last.ret.pixels

\* The call just made is a write that got past get_interp.
WriteReached == last.op \in WriteOps /\ last.kind # "Deleted"

\* The length of the pixel_data the write was given.
PutLen ==
    IF "len" \in DOMAIN last.arg THEN last.arg.len ELSE Len(last.arg.pixel_data)

(******************************** C1 ***************************************)
\* A raw read of exactly the region the last photo_put_block (RGBA) wrote.
SameRegionRead ==
    /\ GetReached
    /\ lastPut.op = "photo_put_block"
    /\ ~lastPut.is_argb
    /\ RawMode
    /\ ReqX = lastPut.x_off
    /\ ReqY = lastPut.y_off
    /\ "width" \in DOMAIN last.arg.opts
    /\ "height" \in DOMAIN last.arg.opts
    /\ ReqW = lastPut.width
    /\ ReqH = lastPut.height

RoundTrips ==
    /\ last.kind = "ok"
    /\ last.ret.data = lastPut.pixel_data
    /\ last.ret.width = lastPut.width
    /\ last.ret.height = lastPut.height

\* The size configured for the image, if any, holds the region written.
NotClipped ==
    /\ photo.userWidth = 0 \/ lastPut.x_off + lastPut.width <= photo.userWidth
    /\ photo.userHeight = 0 \/ lastPut.y_off + lastPut.height <= photo.userHeight

\* C1 as stated: whatever the image was before, an RGBA photo_put_block
\* followed by a raw photo_get_image of the same region returns the bytes
\* written, with the width and height written.
C1_RoundTripAnyImage == SameRegionRead => RoundTrips

\* C1, amended: the same, for an image whose configured size (if it has one)
\* holds the region written.
C1_RoundTrip == (SameRegionRead /\ NotClipped) => RoundTrips

\* C1: a 2x2 block written at x = 1 into an image that held pixels, read back.
C1_Witness ==
    /\ SameRegionRead
    /\ NotClipped
    /\ last.kind = "ok"
    /\ lastPut.width = 2
    /\ lastPut.height = 2
    /\ lastPut.x_off = 1
    /\ \E k \in 1..Len(photo.pix) : photo.pix[k] > 100

(******************************** C2 ***************************************)
\* Output byte c of a pixel is input byte ArgbPerm[c + 1]: [2, 1, 0, 3].
ArgbPerm == <<2, 1, 0, 3>>

\* A successful read after a successful write in the ARGB layout.
ReadAfterArgb ==
    /\ GetReached
    /\ last.kind = "ok"
    /\ lastPut.op \in WriteOps
    /\ lastPut.is_argb

Zoomed == lastPut.op = "photo_put_zoomed_block"
PutDestW == IF Zoomed THEN lastPut.dest_width ELSE lastPut.width
PutDestH == IF Zoomed THEN lastPut.dest_height ELSE lastPut.height

\* The pixel of pixel_data that lands dx, dy pixels into the area written.
PutSrcCol(dx) == IF Zoomed THEN (dx \div lastPut.zoom_x) * lastPut.subsample_x ELSE dx
PutSrcRow(dy) == IF Zoomed THEN (dy \div lastPut.zoom_y) * lastPut.subsample_y ELSE dy

\* C2: after a write in the ARGB layout, by photo_put_block or by
\* photo_put_zoomed_block, every pixel photo_get_image returns from the area
\* written holds the bytes [2, 1, 0, 3] of the pixel of pixel_data it came from.
C2_ArgbPermuted ==
    ReadAfterArgb =>
        \A i \in 0..(last.ret.width - 1), j \in 0..(last.ret.height - 1) :
            LET dx == Max(ReqX, 0) + i - lastPut.x_off
                dy == Max(ReqY, 0) + j - lastPut.y_off
            IN  (dx >= 0 /\ dx < PutDestW /\ dy >= 0 /\ dy < PutDestH) =>
                \A c \in 0..3 :
                    GotBytes[(j * last.ret.width + i) * 4 + c + 1] =
                    lastPut.pixel_data[(PutSrcRow(dy) * lastPut.width
                                        + PutSrcCol(dx)) * 4 + ArgbPerm[c + 1] + 1]

\* C2: an ARGB block written zoomed by 2 and read back whole.
C2_Witness ==
    /\ ReadAfterArgb
    /\ Zoomed
    /\ lastPut.zoom_x = 2
    /\ lastPut.width = 2
    /\ last.ret.width = lastPut.dest_width
    /\ last.ret.height = lastPut.dest_height
    /\ ReqX = 0
    /\ ReqY = 0

(******************************** C3 ***************************************)
LengthDiffers ==
    /\ WriteReached
    /\ PutLen # last.arg.width * last.arg.height * 4

\* C3 as stated: a write whose pixel_data length differs from width*height*4
\* is rejected with the size-mismatch argument error before any Tcl/Tk call.
C3_SizeMismatchAlways ==
    LengthDiffers =>
        /\ last.kind = "ArgError"
        /\ last.msg = "pixel_data size mismatch"
        /\ last.native = <<>>

\* C3, amended: such a write is rejected with an argument error before any
\* Tcl/Tk call: the size-mismatch error when width and height are positive,
\* the error "width and height must be positive" when one of them is not.
C3_LengthRejected ==
    LengthDiffers =>
        /\ last.kind = "ArgError"
        /\ last.native = <<>>
        /\ last.msg = IF last.arg.width <= 0 \/ last.arg.height <= 0
                      THEN "width and height must be positive"
                      ELSE "pixel_data size mismatch"

\* C3: photo_put_zoomed_block given 2x1 and a buffer of another length.
C3_Witness ==
    /\ LengthDiffers
    /\ last.op = "photo_put_zoomed_block"
    /\ last.arg.width = 2
    /\ last.arg.height = 1
    /\ last.msg = "pixel_data size mismatch"

(******************************** C4 ***************************************)
\* The call just made is a photo_put_zoomed_block that read its factors.
FactorsRead ==
    /\ last.op = "photo_put_zoomed_block"
    /\ "zoom_x" \in DOMAIN last.arg

SomeFactorNotPositive ==
    \/ last.arg.zoom_x <= 0
    \/ last.arg.zoom_y <= 0
    \/ last.arg.subsample_x <= 0
    \/ last.arg.subsample_y <= 0

\* C4: a photo_put_zoomed_block with a zoom or subsample factor <= 0 raises an
\* error and writes nothing: no call ends well or reaches
\* Tk_PhotoPutZoomedBlock without having read four positive factors, and the
\* error is an argument error raised before any Tcl/Tk call.
C4_FactorsRejected ==
    /\ (/\ last.op = "photo_put_zoomed_block"
        /\ \/ last.kind = "ok"
           \/ \E n \in 1..Len(last.native) : last.native[n] = "Tk_PhotoPutZoomedBlock")
       => (FactorsRead /\ ~SomeFactorNotPositive)
    /\ (FactorsRead /\ SomeFactorNotPositive)
       => (last.kind = "ArgError" /\ last.native = <<>>)

\* C4: a call with valid pixels, zoom_x = 2 and subsample_y = 0, rejected.
C4_Witness ==
    /\ FactorsRead
    /\ last.arg.zoom_x = 2
    /\ last.arg.subsample_y = 0
    /\ last.msg = "subsample factors must be positive"

(******************************** C5 ***************************************)
BoundsError ==
    last.kind = "ArgError" /\ last.msg = "offset outside image bounds"

\* C5 as stated: photo_get_image fails with the bounds error for every x not
\* in 0..image_width-1 and every y not in 0..image_height-1.
C5_OutsideAlwaysFails ==
    (/\ GetReached
     /\ \/ ReqX < 0 \/ ReqX >= last.arg.img_width
        \/ ReqY < 0 \/ ReqY >= last.arg.img_height)
    => BoundsError

\* C5, amended: a negative offset is read as 0, and photo_get_image fails with
\* the bounds error exactly when, after that, x >= image_width or
\* y >= image_height.
C5_BeyondFails ==
    GetReached =>
        (BoundsError <=>
            \/ Max(ReqX, 0) >= last.arg.img_width
            \/ Max(ReqY, 0) >= last.arg.img_height)

\* C5: x = 1 asked of an image one pixel wide.
C5_Witness ==
    /\ GetReached
    /\ BoundsError
    /\ ReqX = 1
    /\ ReqY = 0
    /\ last.arg.img_width = 1
    /\ last.arg.img_height > 0

(******************************** C6 ***************************************)
\* C6: photo_get_image with an offset inside the image and a region reaching
\* past its edge succeeds, reports min(requested, image - offset) for width and
\* height, and returns that many pixels.
C6_ClampsPastEdge ==
    (/\ GetReached
     /\ ReqX >= 0 /\ ReqX < last.arg.img_width
     /\ ReqY >= 0 /\ ReqY < last.arg.img_height
     /\ ReqW > 0 /\ ReqH > 0
     /\ \/ ReqW > last.arg.img_width - ReqX
        \/ ReqH > last.arg.img_height - ReqY)
    =>  /\ last.kind = "ok"
        /\ last.ret.width = Min(ReqW, last.arg.img_width - ReqX)
        /\ last.ret.height = Min(ReqH, last.arg.img_height - ReqY)
        /\ Len(GotBytes) = last.ret.width * last.ret.height * 4

(******************************** C10 **************************************)
\* C10 as stated: in every operation, an argument-validation error is reported
\* before any Tcl/Tk call of that operation.
C10_ValidationFirstEverywhere == last.kind = "ArgError" => last.native = <<>>

\* C10, amended: that holds for the two writes; photo_get_image reports its
\* argument errors (offset outside the image, invalid region size) after it
\* called Tk_FindPhoto and Tk_PhotoGetImage, whose result they are checked
\* against.
C10_ValidationOrder ==
    last.kind = "ArgError" =>
        \/ last.op \in WriteOps /\ last.native = <<>>
        \/ /\ last.op = "photo_get_image"
           /\ last.native = <<"Tk_FindPhoto", "Tk_PhotoGetImage">>

\* C10: a write rejected for its zoom factors, after its pixels passed.
C10_Witness ==
    /\ last.kind = "ArgError"
    /\ last.op = "photo_put_zoomed_block"
    /\ last.msg = "zoom factors must be positive"
    /\ last.native = <<>>

(******************************** C7 ***************************************)
\* tcl_split_list was just called with nil or with the empty string.
SplitOfNothing ==
    /\ last.op = "tcl_split_list"
    /\ last.arg.list_str \in {RubyNil, RubyString(<<>>)}

\* C7 as stated: tcl_split_list given nil or "" yields an empty sequence and
\* raises no error, in every state of the interpreter handle.
C7_NothingNeverRaises ==
    SplitOfNothing => (last.kind = "ok" /\ last.ret.ary = <<>>)

\* C7, amended: on an interpreter that is not deleted, tcl_split_list given
\* nil or "" yields an empty sequence and raises no error; on a deleted one it
\* raises, as every call does.
C7_NothingOnLiveHandle ==
    SplitOfNothing =>
        IF deleted THEN last.kind = "Deleted"
        ELSE last.kind = "ok" /\ last.ret.ary = <<>>

\* C7: nil split on a live interpreter.
C7_Witness ==
    /\ SplitOfNothing
    /\ last.arg.list_str = RubyNil
    /\ ~deleted
    /\ last.kind = "ok"

(******************************** C8 ***************************************)
\* Tcl's list grammar, stated over a marking of the string's characters
\* (TRUE: part of an element, FALSE: a separator) instead of a scan.
Marks(s) == [1..Len(s) -> BOOLEAN]

\* The elements of a marking: its maximal runs of marked characters.
Runs(s, m) ==
    {r \in (1..Len(s)) \X (1..Len(s)) :
        /\ r[1] <= r[2]
        /\ \A k \in r[1]..r[2] : m[k]
        /\ r[1] = 1 \/ ~m[r[1] - 1]
        /\ r[2] = Len(s) \/ ~m[r[2] + 1]}

\* How many braces are open after s[b..k].
OpenBraces(s, b, k) ==
    Cardinality({q \in b..k : s[q] = "{"}) - Cardinality({q \in b..k : s[q] = "}"})

BareWord(s, b, f) ==
    /\ s[b] # "{"
    /\ s[b] # "\""
    /\ \A k \in b..f : s[k] # " "

BracedWord(s, b, f) ==
    /\ b < f
    /\ s[b] = "{"
    /\ s[f] = "}"
    /\ OpenBraces(s, b, f) = 0
    /\ \A k \in b..(f - 1) : OpenBraces(s, b, k) > 0

QuotedWord(s, b, f) ==
    /\ b < f
    /\ s[b] = "\""
    /\ s[f] = "\""
    /\ \A k \in (b + 1)..(f - 1) : s[k] # "\""

\* m marks a well-formed list: separators are white space and every element
\* is a bare word, a braced word or a quoted word.
IsListParse(s, m) ==
    /\ \A k \in 1..Len(s) : ~m[k] => s[k] = " "
    /\ \A r \in Runs(s, m) :
        \/ BareWord(s, r[1], r[2])
        \/ BracedWord(s, r[1], r[2])
        \/ QuotedWord(s, r[1], r[2])

\* The elements of a marking, first to last, braces and quotes taken off and
\* what they hold left as it is.
TopLevelElements(s, m) ==
    LET runs == Runs(s, m)
        nth(i) == CHOOSE r \in runs :
                      Cardinality({q \in runs : q[1] < r[1]}) = i - 1
    IN  [i \in 1..Cardinality(runs) |->
            IF BareWord(s, nth(i)[1], nth(i)[2])
            THEN SubSeq(s, nth(i)[1], nth(i)[2])
            ELSE SubSeq(s, nth(i)[1] + 1, nth(i)[2] - 1)]

\* tcl_split_list was just called, on a live interpreter, with a string that
\* is not empty.
SplitOfString ==
    /\ last.op = "tcl_split_list"
    /\ last.kind # "Deleted"
    /\ last.arg.list_str.type = "String"
    /\ last.arg.list_str.str # <<>>

\* C8: tcl_split_list raises the parse error, and returns nothing, for a string
\* that is no well-formed list; for one that is, it returns the top-level
\* elements in order, each as it stands (a nested list is not split).
C8_SplitList ==
    SplitOfString =>
        LET s == last.arg.list_str.str
            parses == {m \in Marks(s) : IsListParse(s, m)}
        IN  IF parses = {}
            THEN /\ last.kind = "TclError"
                 /\ last.msg = "invalid Tcl list"
                 /\ last.ret = NoArg
            ELSE /\ last.kind = "ok"
                 /\ \A m \in parses : last.ret.ary = TopLevelElements(s, m)

\* C8: "{a b}" split into its one element, "a b".
C8_Witness ==
    /\ SplitOfString
    /\ last.arg.list_str.str = <<"{", "a", " ", "b", "}">>
    /\ last.kind = "ok"
    /\ last.ret.ary = << <<"a", " ", "b">> >>

(******************************** C9 ***************************************)
\* coords_to_window was just called for a point that no window holds.
HitTestOfNothing ==
    /\ last.op = "coords_to_window"
    /\ \A n \in 1..Len(wins) :
        ~Contains(wins[n], last.arg.root_x, last.arg.root_y)

\* C9 as stated: coords_to_window for a point with no window returns nil and
\* never raises (checked here on a live interpreter).
C9_NothingNeverRaises ==
    (HitTestOfNothing /\ ~deleted) => (last.kind = "ok" /\ last.ret.nil)

\* C9, amended: with Tk initialized (a main window exists) and the
\* interpreter not deleted, coords_to_window for a point with no window
\* returns nil and raises nothing; without a main window it raises the error
\* "Tk not initialized (no main window)".
C9_NothingOnInitializedTk ==
    (HitTestOfNothing /\ ~deleted) =>
        IF hasMain
        THEN last.kind = "ok" /\ last.ret.nil
        ELSE /\ last.kind = "TclError"
             /\ last.msg = "Tk not initialized (no main window)"

\* C9: a point beside the main window and its child, Tk initialized.
C9_Witness ==
    /\ HitTestOfNothing
    /\ ~deleted
    /\ hasMain
    /\ Len(wins) = 2
    /\ last.arg.root_x = MaxWin + 1
    /\ last.kind = "ok"
    /\ last.ret.nil

(******************************** C11 **************************************)
\* A call on a deleted interpreter ended in get_interp: the error of the
\* deleted handle, no Tcl/Tk call made, nothing returned.
EndedInGuard ==
    /\ last.kind = "Deleted"
    /\ last.msg = "interpreter is deleted"
    /\ last.native = <<>>
    /\ last.ret = NoArg

\* C11: once the interpreter is deleted, every binding (photo, font, utility)
\* fails in its first step, whatever its arguments and before any Tcl/Tk call,
\* and the interpreter stays deleted for every later call.
C11_DeletedGuard ==
    /\ []((deleted /\ ~Idle) => EndedInGuard)
    /\ [][deleted => deleted']_vars

\* C11: measure_chars called on a deleted interpreter whose Tk was initialized.
C11_Witness ==
    /\ deleted
    /\ hasMain
    /\ last.op = "measure_chars"
    /\ EndedInGuard

(******************************** C12 **************************************)
ErrorKinds == {"ArgError", "TclError", "TypeError", "Deleted"}

\* C12: a call that raises an error (argument validation, image not found, or
\* any other) leaves the pixels and the dimensions of the image exactly as they
\* were before the call.
C12_NoPartialFailure ==
    [][(last'.op # "none" /\ last'.kind \in ErrorKinds) => photo' = photo]_vars

\* C12: a zoomed write rejected for its factors, on an image that holds the
\* pixels of earlier writes.
C12_Witness ==
    /\ last.op = "photo_put_zoomed_block"
    /\ last.kind = "ArgError"
    /\ last.msg = "subsample factors must be positive"
    /\ photo = PriorPhoto

(******************************** C13 **************************************)
PhotoOps ==
    {"photo_put_block", "photo_put_zoomed_block", "photo_get_image",
     "photo_get_size", "photo_blank"}

\* A photo operation got as far as looking up a name that is no photo image
\* (a write gets there only with arguments that passed its validations).
LookupOfNoImage ==
    /\ last.op \in PhotoOps
    /\ "photo_path" \in DOMAIN last.arg
    /\ last.arg.photo_path # PhotoName

\* C13: each of the five photo operations, given valid arguments and a name
\* that is no photo image, raises the not-found error, having made no Tk call
\* but the lookup: no image is read or written.
C13_NotFound ==
    LookupOfNoImage =>
        /\ last.kind = "TclError"
        /\ last.msg = "photo image not found"
        /\ last.native = <<"Tk_FindPhoto">>
        /\ last.ret = NoArg

\* C13: photo_blank of a name that is no image, beside an image holding pixels.
C13_Witness ==
    /\ LookupOfNoImage
    /\ last.op = "photo_blank"
    /\ last.kind = "TclError"
    /\ photo = PriorPhoto

(******************************** C14 **************************************)
\* photo_get_image found the image and was given no region option.
ReadWithoutRegion ==
    /\ GetReached
    /\ DOMAIN last.arg.opts \cap {"x", "y", "width", "height"} = {}

\* The whole image was returned, under the size photo_get_size reports.
WholeImageRead ==
    /\ last.kind = "ok"
    /\ <<last.ret.width, last.ret.height>> = Tk_PhotoGetSize(photo)
    /\ GotBytes = photo.pix

\* C14 as stated: photo_get_image with no region options returns the full
\* image: the width and height photo_get_size reports, and every pixel.
C14_DefaultsToFullImage == ReadWithoutRegion => WholeImageRead

\* C14, amended: that holds for an image that has pixels; for an empty image
\* (width or height 0) the call raises "offset outside image bounds".
C14_DefaultsOnImageWithPixels ==
    ReadWithoutRegion =>
        IF photo.width > 0 /\ photo.height > 0
        THEN WholeImageRead
        ELSE BoundsError

\* C14: the image written to before, read whole with an empty options hash.
C14_Witness ==
    /\ ReadWithoutRegion
    /\ last.arg.opts = NoOpts
    /\ photo = PriorPhoto
    /\ WholeImageRead
    /\ last.ret.width = MaxDim

(******************************** C15 **************************************)
\* The region options of an options hash.
RegionOf(opts) == [k \in DOMAIN opts \ {"unpack"} |-> opts[k]]

\* The call just made and the one before it are photo_get_image of the same
\* image with the same region options, one raw and one with unpack set.
ReadInBothModes ==
    /\ GetReached
    /\ prev.op = "photo_get_image"
    /\ prev.arg.photo_path = PhotoName
    /\ RegionOf(prev.arg.opts) = RegionOf(last.arg.opts)
    /\ ("unpack" \in DOMAIN prev.arg.opts) # ("unpack" \in DOMAIN last.arg.opts)

\* The two calls ended alike: the same error, or the same width and height
\* with the integers of the one equal to the bytes of the other, four per
\* pixel of the region reported.
ModesAgree ==
    LET raw == IF RawMode THEN last ELSE prev
        unpacked == IF RawMode THEN prev ELSE last
    IN  /\ raw.kind = unpacked.kind
        /\ raw.msg = unpacked.msg
        /\ raw.kind \in {"ok", "ArgError"}
        /\ raw.kind = "ok" =>
            /\ raw.ret.width = unpacked.ret.width
            /\ raw.ret.height = unpacked.ret.height
            /\ Len(raw.ret.data) = raw.ret.width * raw.ret.height * 4
            /\ unpacked.ret.pixels = raw.ret.data

\* C15: for the same image and the same region options the two output modes
\* of photo_get_image agree: the same width and height, the integer sequence
\* equal element for element to the bytes of the raw buffer, and failure on
\* the same inputs.
C15_ModesAgree == ReadInBothModes => ModesAgree

\* The region asked for fits an int: neither sum of lines 341-342 overflows.
RegionFitsInt ==
    /\ ~AddOverflows(Max(ReqX, 0), ReqW)
    /\ ~AddOverflows(Max(ReqY, 0), ReqH)

\* The two modes agree on every region whose sums fit an int.
ModesAgreeWithinInt == (ReadInBothModes /\ RegionFitsInt) => ModesAgree

(******************************** C16 **************************************)
\* len = width * height * 4 in exact arithmetic, stated with divisions so that
\* no product is formed; len is given by its digits and is below 2^33.
ExactSize(len, width, height) ==
    /\ len[1] % 4 = 0
    /\ LET quarter == len[1] \div 4 + len[2] * 2 ^ 13 + len[3] * 2 ^ 28
       IN  /\ quarter % width = 0
           /\ quarter \div width = height

\* The size validation was just made on positive dimensions and ended (it did
\* not trap).
SizeChecked ==
    /\ last.op = "validate_block"
    /\ last.arg.width > 0
    /\ last.arg.height > 0
    /\ last.msg # "signed overflow trapped"

\* The buffer passed the size check.
SizeAccepted == last.msg # "pixel_data size mismatch"

\* C16: for positive width and height up to the largest int, the expected size
\* computed in a 64-bit long that wraps around, the size check lets a buffer
\* through exactly when its length is the exact product width*height*4; no
\* pair wraps to the length of another buffer.
C16_SizeCheckExact ==
    SizeChecked =>
        (SizeAccepted
            <=> ExactSize(last.arg.len, last.arg.width, last.arg.height))

\* C16: width and height 2^15 with an empty buffer, rejected (the product,
\* 2^32, is no multiple of 2^64), and the largest dimensions rejected too.
C16_Witness ==
    /\ SizeChecked
    /\ last.arg.width = 2 ^ 15
    /\ last.arg.height = 2 ^ 15
    /\ last.arg.len = Digits(0)
    /\ last.kind = "ArgError"
    /\ last.msg = "pixel_data size mismatch"
    /\ ExpectedSizeOverflows(INT_MAX, INT_MAX)

(******************************** C17 **************************************)
\* C17: for every block that passes the validation of a write, block.pitch
\* (width * 4 computed in an int) is exactly 4 * width and positive.
C17_PitchExact ==
    (last.op = "validate_block" /\ last.kind = "ok") =>
        /\ last.ret.pitch > 0
        /\ last.ret.pitch % 4 = 0
        /\ last.ret.pitch \div 4 = last.arg.width

\* The pitch is exact for every width up to INT_MAX / 4.
PitchExactBelowQuarter ==
    (last.op = "validate_block" /\ last.kind = "ok"
        /\ last.arg.width <= INT_MAX \div 4) =>
        /\ last.ret.pitch > 0
        /\ last.ret.pitch % 4 = 0
        /\ last.ret.pitch \div 4 = last.arg.width

(******************************** C18 **************************************)
\* The call copied a region: no check of the binding raised an error.
RegionCopied == GetReached /\ last.kind \notin ErrorKinds

\* The region reported lies inside the image, the result holds
\* width * height * 4 bytes, and each of them is the byte of the image's pixel
\* at a row in 0..image_height-1 and a column in 0..image_width-1.
ReadInside ==
    LET x0 == Max(ReqX, 0)
        y0 == Max(ReqY, 0)
        w == last.ret.width
        h == last.ret.height
    IN  /\ w > 0 /\ h > 0
        /\ x0 <= last.arg.img_width - w
        /\ y0 <= last.arg.img_height - h
        /\ last.kind = "ok"
        /\ Len(GotBytes) = w * h * 4
        /\ \A row \in 0..(h - 1), col \in 0..(w - 1), c \in 0..3 :
            /\ y0 + row \in 0..(photo.height - 1)
            /\ x0 + col \in 0..(photo.width - 1)
            /\ GotBytes[(row * w + col) * 4 + c + 1]
                = photo.pix[((y0 + row) * photo.width + x0 + col) * 4 + c + 1]

\* The offsets are inside the image and the clamped width or height is <= 0.
ClampedEmpty ==
    /\ GetReached
    /\ Max(ReqX, 0) < last.arg.img_width
    /\ Max(ReqY, 0) < last.arg.img_height
    /\ \/ Min(ReqW, last.arg.img_width - Max(ReqX, 0)) <= 0
       \/ Min(ReqH, last.arg.img_height - Max(ReqY, 0)) <= 0

InvalidRegionError ==
    last.kind = "ArgError" /\ last.msg = "invalid region size"

\* C18: every photo_get_image that copies a region reads only rows in
\* 0..image_height-1 and columns in 0..image_width-1 and writes exactly
\* reported_width * reported_height * 4 bytes; a call whose clamped width or
\* height is <= 0 fails with the invalid-region error.
C18_ReadStaysInside ==
    /\ RegionCopied => ReadInside
    /\ ClampedEmpty => InvalidRegionError

\* The same for the regions whose sums fit an int.
ReadStaysInsideWithinInt ==
    /\ (RegionCopied /\ RegionFitsInt) => ReadInside
    /\ ClampedEmpty => InvalidRegionError

(******************************** C19 **************************************)
FontOps == {"text_width", "font_metrics", "measure_chars"}

\* How many times a call names the Tk function among those it made.
Calls(native, fn) == Cardinality({i \in DOMAIN native : native[i] = fn})

\* The fonts the call acquired: a Tk_GetFont that did not return NULL.
Acquired ==
    IF last.kind = "TclError" /\ last.msg = "font not found" THEN 0
    ELSE Calls(last.native, "Tk_GetFont")

FontFailureBalanced ==
    /\ last.op = "measure_chars"
    /\ last.kind = "TclError"
    /\ last.msg = "font not found"
    /\ Calls(last.native, "Tk_FreeFont") = 0
    /\ fontRefs = NoFonts

(******************************** C20 **************************************)
\* What a caller can tell of the outcome of a write: the kind of the error (and
\* for an argument error, which), whether Tk was asked to write, the block and
\* the place and size it was asked to write it at, and the image afterwards.
Observed(out) ==
    [kind |-> out.rec.kind,
     msg |-> IF out.rec.kind = "ArgError" THEN out.rec.msg ELSE "",
     native |-> Len(out.rec.native),
     written |-> IF Len(out.rec.native) < 2 THEN <<>>
                 ELSE <<out.rec.arg.pixel_data, out.rec.arg.is_argb,
                        out.rec.arg.x_off, out.rec.arg.y_off,
                        IF "dest_width" \in DOMAIN out.rec.arg
                        THEN out.rec.arg.dest_width ELSE out.rec.arg.width,
                        IF "dest_height" \in DOMAIN out.rec.arg
                        THEN out.rec.arg.dest_height ELSE out.rec.arg.height>>,
     img |-> out.img]

\* On every input, on the image as it is, photo_put_zoomed_block with no factor
\* given ends as photo_put_block does: the same error or the same write of
\* width x height, and the same image.
SameAtDefaults ==
    Idle =>
        \A width \in Dims, height \in Dims, pixel_data \in Buffers,
           opts \in PutOpts, photo_path \in Paths, tcl_ok \in BOOLEAN :
            Observed(PutZoomedBlockOutcome(photo, width, height, pixel_data,
                                           opts, photo_path, tcl_ok))
            = Observed(PutBlockOutcome(photo, width, height, pixel_data, opts,
                                       photo_path, tcl_ok))

\* d is (len div subsample) * zoom, stated without forming the product.
ScaledBy(d, len, subsample, zoom) ==
    /\ d % zoom = 0
    /\ d \div zoom = len \div subsample

\* The destination size of a block whose factors passed the tests is
\* (width div subsample_x) * zoom_x by (height div subsample_y) * zoom_y.
DestSizeAsStated ==
    /\ (last.op = "scale_block" /\ last.kind # "ArgError") =>
        /\ last.kind = "ok"
        /\ ScaledBy(last.ret.dest_width, last.arg.width,
                    last.arg.subsample_x, last.arg.zoom_x)
        /\ ScaledBy(last.ret.dest_height, last.arg.height,
                    last.arg.subsample_y, last.arg.zoom_y)
    /\ (last.op = "photo_put_zoomed_block" /\ "dest_width" \in DOMAIN last.arg) =>
        /\ ScaledBy(last.arg.dest_width, last.arg.width,
                    last.arg.subsample_x, last.arg.zoom_x)
        /\ ScaledBy(last.arg.dest_height, last.arg.height,
                    last.arg.subsample_y, last.arg.zoom_y)

\* C20: photo_put_zoomed_block with the factors left at 1 accepts and rejects
\* the inputs photo_put_block does, with the same kind of error, and leaves the
\* same image (destination size width x height); for any factors its
\* destination size is (width div subsample_x) * zoom_x by
\* (height div subsample_y) * zoom_y.
C20_ZoomedRefinesPut ==
    /\ SameAtDefaults
    /\ DestSizeAsStated

\* The products of the destination size fit an int.
ScaleFitsInt ==
    last.op = "scale_block" =>
        \/ last.kind = "ArgError"
        \/ /\ ~ScaleOverflows(last.arg.width, last.arg.subsample_x, last.arg.zoom_x)
           /\ ~ScaleOverflows(last.arg.height, last.arg.subsample_y, last.arg.zoom_y)

\* The same, the destination size for the factors whose products fit an int.
ZoomedRefinesPutWithinInt ==
    /\ SameAtDefaults
    /\ ScaleFitsInt => DestSizeAsStated
====
